---------------------------- MODULE Spec2Model ----------------------------
(***************************************************************************)
(* Model of the probability engine of PolyBitArbitrageAI:                  *)
(*   src/utils/math.ts        extractStrikePrice, calculateBlackScholesProb,*)
(*                            runMonteCarloSimulation                       *)
(*   src/utils/helpers.ts     convertIsoToDeribitDate                       *)
(*   src/components/MarketCard.tsx   App.fetchData (match logic)            *)
(*   src/unnamed/part_000     AnalysisPanel (strikePrice, relevantOption,   *)
(*                            the calculate effect and its timer)           *)
(*                                                                         *)
(* Numbers.  A JavaScript number is a record [k, v]: k = "num" with v the   *)
(* value in thousandths (fixed point), or one of the IEEE specials NaN,     *)
(* +Infinity, -Infinity; null is a value of its own.  Strings are sequences *)
(* of one-character strings.                                                *)
(***************************************************************************)
EXTENDS Integers, Sequences, FiniteSets, TLC

VARIABLES
    text,        \* extractStrikePrice: the argument
    extracted,   \* extractStrikePrice: the returned value ("unset" before the call)
    call,        \* estimators: the call in progress, [fn, S, K, T, sigma, ...]
    mc,          \* runMonteCarloSimulation: the locals of its loops
    ret,         \* estimators: the returned value ("unset" before the return)
    loaded,          \* App: fetchData has delivered data
    endDate,         \* App: polyEvent.endDate
    deribitOptions,  \* App: the option chain fetchDeribitOptions returned
    matchedOptions,  \* App: the matchedOptions of the event; AnalysisPanel: the prop
    spotPrice,       \* AnalysisPanel: prop
    question,        \* AnalysisPanel: market.question
    polyEventTitle,  \* AnalysisPanel: prop
    timeToExpiry,    \* AnalysisPanel: the memo of market.endDate - Date.now()
    modelType,       \* AnalysisPanel: state
    volMultiplier,   \* AnalysisPanel: state
    manualStrike,    \* AnalysisPanel: state
    strikePriceMemo,     \* AnalysisPanel: the value of the strikePrice memo
    relevantOptionMemo,  \* AnalysisPanel: the value of the relevantOption memo
    calculating,     \* AnalysisPanel: state
    resultProb,      \* AnalysisPanel: state
    timers,          \* the pending setTimeout callbacks, each with the values it closed over
    effectTimer,     \* the timer the cleanup of the last effect run clears
    resultCurrent,   \* history: resultProb was computed from the inputs of the last effect run
    superseded,      \* history: a cleanup has cleared a pending timer
    quote,           \* AnalysisPanel render: market.bestBid, market.bestAsk, resultProb
    badges,          \* AnalysisPanel render: spread, edge and their flags ("unset" before)
    outcomesStr,     \* parsePolymarketOutcomes: parameter
    pricesStr,       \* parsePolymarketOutcomes: parameter
    outcomes,        \* parsePolymarketOutcomes: how the call ended and what it returned
    now,             \* api: Date.now()
    cache,           \* api: cache, by URL
    inFlightRequests,  \* api: inFlightRequests, by URL (0: no entry)
    calls,           \* api: the calls of fetchWithCache made, with the promise each returned
    requests         \* api: the requests of step 3 of fetchWithCache, by the call that made them

extractVars == <<text, extracted>>
mathVars == <<call, mc, ret>>
matchVars == <<loaded, endDate, deribitOptions>>
quoteVars == <<quote, badges>>
parseVars == <<outcomesStr, pricesStr, outcomes>>
apiVars == <<now, cache, inFlightRequests, calls, requests>>
\* the parts the specifications of the parts above leave alone
sideVars == <<quoteVars, parseVars, apiVars>>
panelVars ==
    <<spotPrice, question, polyEventTitle, timeToExpiry, modelType, volMultiplier,
      manualStrike, strikePriceMemo, relevantOptionMemo, calculating, resultProb,
      timers, effectTimer, resultCurrent, superseded>>
vars ==
    <<text, extracted, call, mc, ret, loaded, endDate, deribitOptions, matchedOptions,
      spotPrice, question, polyEventTitle, timeToExpiry, modelType, volMultiplier,
      manualStrike, strikePriceMemo, relevantOptionMemo, calculating, resultProb,
      timers, effectTimer, resultCurrent, superseded, quote, badges,
      outcomesStr, pricesStr, outcomes, now, cache, inFlightRequests, calls, requests>>

----------------------------------------------------------------------------
(* Bounds of the model *)

\* longest text handed to extractStrikePrice
MaxLen == 4

\* largest iteration count handed to runMonteCarloSimulation
MaxIterations == 2

\* longest option chain fetchDeribitOptions returns
MaxChain == 3

\* number of calls of fetchWithCache
MaxCalls == 3

\* latest Date.now(), in units of 30 s
MaxClock == 2

----------------------------------------------------------------------------
(* JavaScript values *)

\* fixed-point resolution: 1.0 is Scale
Scale == 10 * 10 * 10

Null == [k |-> "null", v |-> 0]
NaN  == [k |-> "nan", v |-> 0]
PInf == [k |-> "inf", v |-> 1]
NInf == [k |-> "inf", v |-> -1]
Num(n) == [k |-> "num", v |-> n]

IsNum(x) == x.k = "num"

\* ToBoolean of null or a number: null, NaN and 0 are falsy
Truthy(x) == x.k = "inf" \/ (x.k = "num" /\ x.v # 0)

\* a result not yet returned
Unset == [k |-> "unset", v |-> 0]

----------------------------------------------------------------------------
(* Fixed-point arithmetic standing for IEEE double arithmetic.  Finite      *)
(* values are rounded to thousandths; division by zero and the functions of *)
(* the special values give the special values IEEE 754 gives.               *)

\* integer quotient rounded toward zero
Quot(a, b) == IF a >= 0 THEN a \div b ELSE -((-a) \div b)

\* the product of two fixed-point values
Mul(a, b) == Quot(a * b, Scale)

Abs(a) == IF a < 0 THEN -a ELSE a

\* a / b of two finite values
FDiv(a, b) ==
    IF b = 0 THEN (IF a > 0 THEN PInf ELSE IF a < 0 THEN NInf ELSE NaN)
    ELSE IF b > 0 THEN Num(Quot(a * Scale, b))
    ELSE Num(Quot((-a) * Scale, -b))

\* x / d of a possibly special x and a finite d
FDivBy(x, d) ==
    CASE x.k = "nan" -> NaN
      [] x.k = "inf" -> IF d >= 0 THEN x ELSE [k |-> "inf", v |-> -x.v]
      [] OTHER -> FDiv(x.v, d)

\* x + c of a possibly special x and a finite c
FPlus(x, c) == IF x.k = "num" THEN Num(x.v + c) ELSE x

\* Math.sqrt of a finite value >= 0
SqrtFix(a) == CHOOSE q \in 0..(a + Scale) : q * q <= a * Scale /\ (q + 1) * (q + 1) > a * Scale

RECURSIVE LnFix(_)
\* Math.log of a finite value > 0: ln x = 2 atanh((x - 1) / (x + 1)), after
\* halving or doubling x into [1/2, 2]
LnFix(a) ==
    IF a > 2 * Scale THEN LnFix(a \div 2) + 693
    ELSE IF 2 * a < Scale THEN LnFix(2 * a) - 693
    ELSE LET z  == Quot((a - Scale) * Scale, a + Scale)
             z2 == Mul(z, z)
             z3 == Mul(z, z2)
             z5 == Mul(z3, z2)
             z7 == Mul(z5, z2)
         IN  2 * (z + Quot(z3, 3) + Quot(z5, 5) + Quot(z7, 7))

\* Math.log
FLn(x) ==
    CASE x.k = "nan" -> NaN
      [] x.k = "inf" -> IF x.v > 0 THEN PInf ELSE NaN
      [] OTHER -> IF x.v < 0 THEN NaN ELSE IF x.v = 0 THEN NInf ELSE Num(LnFix(x.v))

RECURSIVE ExpFix(_)
\* Math.exp of a finite value: the Taylor polynomial on [0, 1/2], squaring
\* above it, the reciprocal below 0
ExpFix(a) ==
    IF a < 0 THEN
        (IF -a > Scale \div 2
         THEN LET h == ExpFix(-((-a) \div 2)) IN Mul(h, h)
         ELSE (Scale * Scale) \div ExpFix(-a))
    ELSE IF a > Scale \div 2 THEN LET h == ExpFix(a \div 2) IN Mul(h, h)
    ELSE LET a2 == Mul(a, a)
             a3 == Mul(a2, a)
             a4 == Mul(a3, a)
         IN  Scale + a + a2 \div 2 + a3 \div 6 + a4 \div 24

----------------------------------------------------------------------------
(* Strings *)

Digits == {"0", "1", "2", "3", "4", "5", "6", "7", "8", "9"}

IsDigit(c) == c \in Digits

DigitVal(c) ==
    CASE c = "0" -> 0 [] c = "1" -> 1 [] c = "2" -> 2 [] c = "3" -> 3
      [] c = "4" -> 4 [] c = "5" -> 5 [] c = "6" -> 6 [] c = "7" -> 7
      [] c = "8" -> 8 [] c = "9" -> 9

\* \w of a regular expression, over the characters of the model: every
\* character but the punctuation
IsWordChar(c) == c \notin {"$", ".", ",", " ", "-"}

AllDigits(s, i, j) == \A n \in i..j : IsDigit(s[n])

\* the value of the digit string s[i..j]
NatOf(s, i, j) ==
    LET value[n \in (i - 1)..j] ==
            IF n < i THEN 0 ELSE value[n - 1] * 10 + DigitVal(s[n])
    IN  value[IF j < i THEN i - 1 ELSE j]

Pow10(n) ==
    LET power[m \in 0..n] == IF m = 0 THEN 1 ELSE 10 * power[m - 1]
    IN  power[n]

\* parseFloat of s[i..e] where s[i..a] is the integer part and, when e > a,
\* s[a+1] is "." and s[a+2..e] the fraction
DecimalValue(s, i, a, e) ==
    NatOf(s, i, a) * Scale
      + (IF e > a THEN (NatOf(s, a + 2, e) * Scale) \div Pow10(e - a - 1) ELSE 0)

\* text.replace(/,/g, '')
RemoveCommas(s) == SelectSeq(s, LAMBDA c : c # ",")

LowerChar(c) ==
    CASE c = "K" -> "k" [] c = "X" -> "x" [] c = "H" -> "h" [] c = "T" -> "t"
      [] OTHER -> c

\* String.prototype.toLowerCase
ToLowerCase(s) == [i \in 1..Len(s) |-> LowerChar(s[i])]

----------------------------------------------------------------------------
(* extractStrikePrice, src/utils/math.ts *)

CleanText(t) == ToLowerCase(RemoveCommas(t))

\* The ways /(\d+(\.\d+)?)/ can match at position i of s: <<a, e>> with the
\* integer part s[i..a] and the whole number s[i..e] (e = a: no fraction).
NumberMatches(s, i) ==
    {<<a, a>> : a \in {a \in i..Len(s) : AllDigits(s, i, a)}}
      \cup
    {ae \in (i..Len(s)) \X (i..Len(s)) :
        /\ AllDigits(s, i, ae[1])
        /\ ae[2] >= ae[1] + 2
        /\ s[ae[1] + 1] = "."
        /\ AllDigits(s, ae[1] + 2, ae[2])}

\* the match a greedy regular expression engine prefers: the longest integer
\* part, then the longest fraction
Greediest(ms) ==
    CHOOSE m \in ms : \A n \in ms : n[1] < m[1] \/ (n[1] = m[1] /\ n[2] <= m[2])

\* cleanText.match(/\$(\d+(\.\d+)?)/): the positions of "$" where it matches
DollarStarts(s) ==
    {i \in 1..Len(s) : s[i] = "$" /\ NumberMatches(s, i + 1) # {}}

\* parseFloat(dollarMatch[1]) of the leftmost match
DollarValue(s) ==
    LET i == CHOOSE i \in DollarStarts(s) : \A j \in DollarStarts(s) : i <= j
        m == Greediest(NumberMatches(s, i + 1))
    IN  DecimalValue(s, i + 1, m[1], m[2])

\* \b after position e: the end of the text or a non-word character
WordBoundaryAfter(s, e) == e = Len(s) \/ ~IsWordChar(s[e + 1])

\* the matches of /(\d+(\.\d+)?)k\b/ that start at i
KMatches(s, i) ==
    {m \in NumberMatches(s, i) :
        /\ m[2] + 1 <= Len(s)
        /\ s[m[2] + 1] = "k"
        /\ WordBoundaryAfter(s, m[2] + 1)}

KStarts(s) == {i \in 1..Len(s) : KMatches(s, i) # {}}

\* parseFloat(kMatch[1]) * 1000 of the leftmost match
KValue(s) ==
    LET i == CHOOSE i \in KStarts(s) : \A j \in KStarts(s) : i <= j
        m == Greediest(KMatches(s, i))
    IN  DecimalValue(s, i, m[1], m[2]) * 1000

\* extractStrikePrice with the two patterns tried in the other order
extractStrikePriceKFirst(t) ==
    IF t = <<>> THEN Null
    ELSE LET cleanText == CleanText(t)
         IN  IF KStarts(cleanText) # {} THEN Num(KValue(cleanText))
             ELSE IF DollarStarts(cleanText) # {} THEN Num(DollarValue(cleanText))
             ELSE Null

extractStrikePrice(t) ==
    IF t = <<>> THEN Null
    ELSE LET cleanText == CleanText(t)
         IN  IF DollarStarts(cleanText) # {} THEN Num(DollarValue(cleanText))
             ELSE IF KStarts(cleanText) # {} THEN Num(KValue(cleanText))
             ELSE Null

\* String.prototype.includes
Includes(s, sub) ==
    \E off \in 0..(Len(s) - Len(sub)) : \A n \in 1..Len(sub) : s[off + n] = sub[n]

\* the missing element of an array: split(...)[2] of a short array
Undefined == <<"undefined">>

\* String.prototype.split('-'): the pieces between the dashes
SplitDash(s) ==
    LET dashes == {d \in 1..Len(s) : s[d] = "-"}
        \* the position of the n-th dash; 0 and Len(s) + 1 bound the string
        dash(n) == IF n = 0 THEN 0
                   ELSE IF n > Cardinality(dashes) THEN Len(s) + 1
                   ELSE CHOOSE d \in dashes : Cardinality({e \in dashes : e < d}) = n - 1
    IN  [n \in 1..(Cardinality(dashes) + 1) |-> SubSeq(s, dash(n - 1) + 1, dash(n) - 1)]

\* parts[n] of a JavaScript array (n counts from 0)
At(parts, n) == IF n + 1 <= Len(parts) THEN parts[n + 1] ELSE Undefined

\* parseFloat of a string, or of undefined: an optional "-", digits, an
\* optional fraction; NaN when no digit leads
ParseFloat(s) ==
    IF s = Undefined \/ s = <<>> THEN NaN
    ELSE LET neg == s[1] = "-"
             i   == IF neg THEN 2 ELSE 1
             ms  == NumberMatches(s, i)
         IN  IF ms = {} THEN NaN
             ELSE LET m == Greediest(ms)
                      v == DecimalValue(s, i, m[1], m[2])
                  IN  Num(IF neg THEN -v ELSE v)

\* Number.prototype.toString of a natural number
NatToChars(n) ==
    LET digit(m) == <<"0", "1", "2", "3", "4", "5", "6", "7", "8", "9">>[(m % 10) + 1]
        chars[m \in 0..n] ==
            IF m < 10 THEN <<digit(m)>> ELSE chars[m \div 10] \o <<digit(m)>>
    IN  chars[n]

----------------------------------------------------------------------------
(* convertIsoToDeribitDate, src/utils/helpers.ts, and the match logic of    *)
(* App.fetchData, src/components/MarketCard.tsx                             *)

\* an absent endDate
NoDate == [y |-> 0, m |-> 0, d |-> 0]

monthNames ==
    << <<"J", "A", "N">>, <<"F", "E", "B">>, <<"M", "A", "R">>, <<"A", "P", "R">>,
       <<"M", "A", "Y">>, <<"J", "U", "N">>, <<"J", "U", "L">>, <<"A", "U", "G">>,
       <<"S", "E", "P">>, <<"O", "C", "T">>, <<"N", "O", "V">>, <<"D", "E", "C">> >>

\* String.prototype.slice(-2)
LastTwo(s) == IF Len(s) <= 2 THEN s ELSE SubSeq(s, Len(s) - 1, Len(s))

convertIsoToDeribitDate(isoDate) ==
    IF isoDate = NoDate THEN <<>>
    ELSE LET day   == NatToChars(isoDate.d)
             year  == LastTwo(NatToChars(isoDate.y))
             month == monthNames[isoDate.m]
         IN  day \o month \o year

\* deribitOptions.filter(opt => opt.instrument_name.includes(targetDateCode))
FilterIncludes(options, targetDateCode) ==
    SelectSeq(options, LAMBDA opt : Includes(opt.instrument_name, targetDateCode))

\* the matchedOptions of an event
MatchOptions(isoDate, options) ==
    FilterIncludes(options, convertIsoToDeribitDate(isoDate))

----------------------------------------------------------------------------
(* normalCDF and calculateBlackScholesProb, src/utils/math.ts *)

\* the default of the parameter r, 0.04
RiskFreeRate == 40

\* normalCDF of a finite x >= 0
NormalCDFPos(x) ==
    LET t    == (Scale * Scale) \div (Scale + Mul(232, x))
        t2   == Mul(t, t)
        t3   == Mul(t2, t)
        t4   == Mul(t3, t)
        t5   == Mul(t4, t)
        poly == Mul(319, t) - Mul(357, t2) + Mul(1781, t3) - Mul(1821, t4) + Mul(1330, t5)
        pdf  == Mul(399, ExpFix(-(Mul(x, x) \div 2)))
    IN  Scale - Mul(pdf, poly)

\* normalCDF(x).  x = +Infinity: t = 0 and Math.exp(-Infinity) = 0, so 1 - 0;
\* x = -Infinity: 1 - normalCDF(+Infinity); x = NaN: NaN < 0 is false and
\* every term is NaN.
normalCDF(x) ==
    CASE x.k = "nan" -> NaN
      [] x.k = "inf" -> IF x.v > 0 THEN Num(Scale) ELSE Num(0)
      [] OTHER -> IF x.v < 0 THEN Num(Scale - NormalCDFPos(-x.v))
                  ELSE Num(NormalCDFPos(x.v))

\* S > K ? 1.0 : 0.0
Indicator(S, K) == IF S > K THEN Num(Scale) ELSE Num(0)

\* d2 = (Math.log(S / K) + (r - 0.5 * sigma * sigma) * T) / (sigma * Math.sqrt(T))
D2(S, K, T, sigma) ==
    FDivBy(FPlus(FLn(FDiv(S, K)), Mul(RiskFreeRate - Mul(sigma, sigma) \div 2, T)),
           Mul(sigma, SqrtFix(T)))

\* calculateBlackScholesProb without its T <= 0 return
BlackScholesNoGuard(S, K, T, sigma) ==
    IF T < 0 THEN Indicator(S, K) ELSE normalCDF(D2(S, K, T, sigma))

calculateBlackScholesProb(S, K, T, sigma) ==
    IF T <= 0 THEN Indicator(S, K) ELSE normalCDF(D2(S, K, T, sigma))

----------------------------------------------------------------------------
(* runMonteCarloSimulation, src/utils/math.ts *)

\* the days of a year in the step count
DaysPerYear == 365

\* Math.ceil of a finite value >= 0, as an integer
Ceil(a) == (a + Scale - 1) \div Scale

\* steps = isTouch ? Math.max(1, Math.ceil(T * 365)) : 1
Steps(T, isTouch) ==
    IF isTouch THEN (IF Ceil(T * DaysPerYear) > 1 THEN Ceil(T * DaysPerYear) ELSE 1)
    ELSE 1

\* the step of a path that is not divided
StepDtWhole(T, isTouch) == T

\* stepDt = T / steps
StepDt(T, isTouch) == Quot(T, Steps(T, isTouch))

\* effectiveSigma = sigma * volMultiplier
EffectiveSigma(c) == Mul(c.sigma, c.volMultiplier)

\* drift = (r - 0.5 * effectiveSigma * effectiveSigma) * stepDt
Drift(c) ==
    Mul(RiskFreeRate - Mul(EffectiveSigma(c), EffectiveSigma(c)) \div 2,
        StepDt(c.T, c.isTouch))

\* volShock = effectiveSigma * Math.sqrt(stepDt)
VolShock(c) == Mul(EffectiveSigma(c), SqrtFix(StepDt(c.T, c.isTouch)))

\* the draws of randn_bm the model distinguishes
ZValues == {-5 * Scale, 0, 5 * Scale}

\* Math.exp(drift + volShock * Z)
StepFactor(c, Z) == ExpFix(Drift(c) + Mul(VolShock(c), Z))

\* currentS * Math.exp(drift + volShock * Z)
StepPrice(c, currentS, Z) == Mul(currentS, StepFactor(c, Z))

----------------------------------------------------------------------------
(* AnalysisPanel, src/unnamed/part_000: the memos *)

\* the estimate of a value that is not a number: parseFloat(...) || 0
OrZero(x) == IF Truthy(x) THEN x ELSE Num(0)

\* the strikePrice memo
strikePrice(q, title, manual) ==
    LET s1 == extractStrikePrice(q)
        s2 == extractStrikePrice(title)
    IN  IF Truthy(s1) THEN s1
        ELSE IF Truthy(s2) THEN s2
        ELSE OrZero(ParseFloat(manual))

\* a - b and Math.abs of numbers that may be NaN
FSub(a, b) == IF IsNum(a) /\ IsNum(b) THEN Num(a.v - b.v) ELSE NaN
FAbs(a) == IF IsNum(a) THEN Num(Abs(a.v)) ELSE a

\* parseFloat(a.instrument_name.split('-')[2])
StrikeOf(opt) == ParseFloat(At(SplitDash(opt.instrument_name), 2))

\* the comparator of the sort: Math.abs(strikeA - strikePrice) - Math.abs(strikeB - strikePrice)
Comparator(a, b, K) == FSub(FAbs(FSub(StrikeOf(a), K)), FAbs(FSub(StrikeOf(b), K)))

\* Array.prototype.sort reads a comparator result of NaN as +0
SortOrder(a, b, K) == IF IsNum(Comparator(a, b, K)) THEN Comparator(a, b, K).v ELSE 0

\* x inserted into a sorted array: moved left from the end past every
\* element the comparator puts behind it
Insert(sorted, x, K) ==
    LET stop == CHOOSE j \in 0..Len(sorted) :
                    /\ j = 0 \/ SortOrder(sorted[j], x, K) <= 0
                    /\ \A n \in (j + 1)..Len(sorted) : SortOrder(sorted[n], x, K) > 0
    IN  SubSeq(sorted, 1, stop) \o <<x>> \o SubSeq(sorted, stop + 1, Len(sorted))

\* [...matchedOptions].sort(comparator): Array.prototype.sort is stable; the
\* elements are inserted one by one, in array order
SortByDistance(chain, K) ==
    LET sorted[n \in 0..Len(chain)] ==
            IF n = 0 THEN <<>> ELSE Insert(sorted[n - 1], chain[n], K)
    IN  sorted[Len(chain)]

\* market.question.toLowerCase().includes('touch') || ...includes('hit')
IsTouch(q) ==
    \/ Includes(ToLowerCase(q), <<"t", "o", "u", "c", "h">>)
    \/ Includes(ToLowerCase(q), <<"h", "i", "t">>)

\* the null of relevantOption
NoOption == [instrument_name |-> <<>>, mark_iv |-> Null]

\* the relevantOption memo
relevantOption(chain, K) ==
    IF ~Truthy(K) \/ Len(chain) = 0 THEN NoOption
    ELSE SortByDistance(chain, K)[1]

----------------------------------------------------------------------------
(* The inputs of AnalysisPanel that the model draws from *)

BTC == <<"B", "T", "C">>
May5 == <<"5", "M", "A", "Y", "2", "4">>
May15 == <<"1", "5", "M", "A", "Y", "2", "4">>

InstrumentName(expiry, strike, kind) ==
    BTC \o <<"-">> \o expiry \o <<"-">> \o strike \o <<"-">> \o kind

O90 == [instrument_name |-> InstrumentName(May5, <<"9", "0">>, <<"C">>),
        mark_iv |-> Num(50 * Scale)]
O100 == [instrument_name |-> InstrumentName(May5, <<"1", "0", "0">>, <<"C">>),
         mark_iv |-> Num(60 * Scale)]
\* a quote without implied volatility
O110 == [instrument_name |-> InstrumentName(May5, <<"1", "1", "0">>, <<"P">>),
         mark_iv |-> Null]
\* a quote of a later expiry
O100Later == [instrument_name |-> InstrumentName(May15, <<"1", "0", "0">>, <<"C">>),
              mark_iv |-> Num(70 * Scale)]
\* a quote whose identifier has two parts only
OShort == [instrument_name |-> BTC \o <<"-">> \o May5, mark_iv |-> Num(50 * Scale)]

QHit100 == <<"h", "i", "t", " ", "$", "1", "0", "0">>
Q110 == <<"$", "1", "1", "0">>
QZero == <<"$", "0">>
QNone == <<"u", "p">>
Questions == {QHit100, Q110, QZero, QNone}

TNone == <<"b", "t", "c">>
T95 == <<"$", "9", "5">>
Titles == {TNone, T95}

\* what the number input can hold once typed into
ManualInputs == {<<"1", "0", "5">>, <<"-", "5">>, <<"0">>}

PanelSpots == {100 * Scale, 110 * Scale}
\* years: expired, and 9.125 days
PanelTimes == {0, Scale \div 40}
PanelMultipliers == {Scale, 3 * Scale}

\* the chains fetchData hands over for an event that ends on 5 May 2024
PanelChains ==
    {MatchOptions([y |-> 2024, m |-> 5, d |-> 5], r) :
        r \in {<<>>, <<O90, O100, O110>>, <<O100, O90>>, <<OShort, O100>>}}


\* no override typed, or one of the above
ManualValues == {<<>>} \cup ManualInputs

\* the value a table of <<key, value>> pairs holds for a key
Lookup(table, key) == (CHOOSE p \in table : p[1] = key)[2]

\* the strikePrice and relevantOption memos over the inputs above, computed once
StrikeTable ==
    {<<i, strikePrice(i[1], i[2], i[3])>> : i \in Questions \X Titles \X ManualValues}

StrikeValues == {p[2] : p \in StrikeTable}

OptionTable == {<<i, relevantOption(i[1], i[2])>> : i \in PanelChains \X StrikeValues}

TouchTable == {<<q, IsTouch(q)>> : q \in Questions}

----------------------------------------------------------------------------
(* AnalysisPanel, src/unnamed/part_000: the calculate effect *)

\* the iteration count AnalysisPanel passes
McIterations == 50000

\* the values the setTimeout callback closes over
Closure(d, q) ==
    [spot |-> d.spot, strike |-> d.strike, T |-> d.T, option |-> d.option,
     modelType |-> d.modelType, volMultiplier |-> d.volMultiplier, isTouch |-> Lookup(TouchTable, q)]

DepsOf(t) ==
    [spot |-> t.spot, strike |-> t.strike, T |-> t.T, option |-> t.option,
     modelType |-> t.modelType, volMultiplier |-> t.volMultiplier]

\* the dependency list without the multiplier
DepsWithoutMultiplier(sp, K, T, opt, mt, vm) ==
    [spot |-> sp, strike |-> K, T |-> T, option |-> opt,
     modelType |-> mt, volMultiplier |-> Scale]

\* the dependency list of the effect
Deps(sp, K, T, opt, mt, vm) ==
    [spot |-> sp, strike |-> K, T |-> T, option |-> opt,
     modelType |-> mt, volMultiplier |-> vm]

\* the dependency list of the last render
CurrentDeps ==
    Deps(spotPrice, strikePriceMemo, timeToExpiry, relevantOptionMemo, modelType,
         volMultiplier)

\* if (!strikePrice || !relevantOption)
EffectGuard(d) == ~Truthy(d.strike) \/ d.option = NoOption

\* a cleanup that clears nothing
ClearTimeoutNever(pending, handles) == pending

\* clearTimeout(timer) of the cleanup: handles is empty when the last effect
\* run returned no cleanup
ClearTimeout(pending, handles) == pending \ handles

RECURSIVE PathOutcomes(_, _, _, _)
\* the outcomes (success or not) of the paths that are at one of the prices
\* live before step j; factors are the values of Math.exp(drift + volShock * Z)
PathOutcomes(c, factors, live, j) ==
    IF live = {} THEN {}
    ELSE IF j >= Steps(c.T, c.isTouch)
    THEN (IF c.isTouch THEN {FALSE} ELSE {p > c.K : p \in live})
    ELSE LET next == {Mul(p, f) : p \in live, f \in factors}
             hits == {p \in next : c.isTouch /\ p >= c.K}
         IN  (IF hits # {} THEN {TRUE} ELSE {})
               \cup PathOutcomes(c, factors, next \ hits, j + 1)

\* the values runMonteCarloSimulation can return: all paths fail, all succeed,
\* or, when both can happen, also half of them
MonteCarloResults(c) ==
    IF c.T <= 0 THEN {Indicator(c.S, c.K)}
    ELSE LET outs   == PathOutcomes(c, {StepFactor(c, Z) : Z \in ZValues}, {c.S}, 0)
             counts == (IF FALSE \in outs THEN {0} ELSE {})
                         \cup (IF TRUE \in outs THEN {c.iterations} ELSE {})
                         \cup (IF outs = BOOLEAN THEN {c.iterations \div 2} ELSE {})
         IN  {FDiv(n, c.iterations) : n \in counts}

\* sigma = (relevantOption.mark_iv || 0) / 100
SigmaOf(opt) == Quot(OrZero(opt.mark_iv).v, 100)

\* the values of prob the timer callback can compute
Estimates(t) ==
    IF t.modelType = "BS"
    THEN {calculateBlackScholesProb(t.spot, t.strike.v, t.T, SigmaOf(t.option))}
    ELSE MonteCarloResults(
            [fn |-> "MC", S |-> t.spot, K |-> t.strike.v, T |-> t.T,
             sigma |-> SigmaOf(t.option), iterations |-> McIterations,
             volMultiplier |-> t.volMultiplier, isTouch |-> t.isTouch])

\* the closures a setTimeout callback of the panel can hold
PanelClosures ==
    {[spot |-> sp, strike |-> p[1][2], T |-> T, option |-> p[2], modelType |-> mt,
      volMultiplier |-> vm, isTouch |-> touch] :
        sp \in PanelSpots, p \in {o \in OptionTable : o[2] # NoOption}, T \in PanelTimes,
        mt \in {"BS", "MC"}, vm \in PanelMultipliers, touch \in BOOLEAN}

\* the values of prob of each of them, computed once
EstimateTable == {<<t, Estimates(t)>> : t \in PanelClosures}

----------------------------------------------------------------------------
(* calculateSpread, src/utils/math.ts, and the spread and edge of the       *)
(* AnalysisPanel render, src/unnamed/part_000                               *)

\* a field the market object does not have
Absent == [k |-> "undefined", v |-> 0]

\* x * n of a possibly special x and a whole number n > 0
FTimes(x, n) == IF IsNum(x) THEN Num(x.v * n) ELSE IF x.k = "inf" THEN x ELSE NaN

\* ((ask - bid) / ask) * 100, 0 without an ask
calculateSpread(bid, ask) ==
    IF ~Truthy(ask) \/ ask = Num(0) THEN Num(0)
    ELSE IF IsNum(bid) /\ IsNum(ask) THEN FTimes(FDiv(ask.v - bid.v, ask.v), 100)
    ELSE NaN

\* spread > 5.0 with the comparison reading the percentage to 1/1000
isLiquidityLowAtLeast(spread) == IsNum(spread) /\ spread.v >= 5 * Scale

\* spread > 5.0
isLiquidityLow(spread) == IsNum(spread) /\ spread.v > 5 * Scale

\* market.bestAsk || 0
polyYesPrice(bestAsk) == OrZero(bestAsk)

\* the edge against the bid
edgeOfBid(prob, bestBid, bestAsk) ==
    IF prob # Null THEN FSub(FTimes(prob, 100), FTimes(polyYesPrice(bestBid), 100)) ELSE Null

\* resultProb !== null ? (resultProb * 100) - (polyYesPrice * 100) : null
edge(prob, bestBid, bestAsk) ==
    IF prob # Null THEN FSub(FTimes(prob, 100), FTimes(polyYesPrice(bestAsk), 100)) ELSE Null

\* edge !== null && edge > 5.0
isGoodOpp(e) == e # Null /\ IsNum(e) /\ e.v > 5 * Scale

\* no market rendered
NoQuote == [bestBid |-> Absent, bestAsk |-> Absent, resultProb |-> Null]

----------------------------------------------------------------------------
(* Values of the state before any call *)

NoCall ==
    [fn |-> "none", S |-> 0, K |-> 0, T |-> 0, sigma |-> 0,
     iterations |-> 0, volMultiplier |-> 0, isTouch |-> FALSE]

McIdle ==
    [pc |-> "idle", i |-> 0, j |-> 0, currentS |-> 0, hit |-> FALSE, successCount |-> 0]

\* the state of the parts a specification leaves alone
ExtractIdle == text = <<>> /\ extracted = Unset
MathIdle == call = NoCall /\ mc = McIdle /\ ret = Unset
MatchIdle == loaded = FALSE /\ endDate = NoDate /\ deribitOptions = <<>>
PanelIdle ==
    /\ matchedOptions = <<>>
    /\ spotPrice = 0 /\ question = <<>> /\ polyEventTitle = <<>> /\ timeToExpiry = 0
    /\ modelType = "BS" /\ volMultiplier = Scale /\ manualStrike = <<>>
    /\ strikePriceMemo = Num(0) /\ relevantOptionMemo = NoOption
    /\ calculating = FALSE /\ resultProb = Null
    /\ timers = {} /\ effectTimer = {}
    /\ resultCurrent = FALSE /\ superseded = FALSE
QuoteIdle == quote = NoQuote /\ badges = Unset

\* String.prototype.split(','): the pieces between the commas
SplitComma(s) ==
    LET commas == {d \in 1..Len(s) : s[d] = ","}
        comma(n) == IF n = 0 THEN 0
                    ELSE IF n > Cardinality(commas) THEN Len(s) + 1
                    ELSE CHOOSE d \in commas : Cardinality({e \in commas : e < d}) = n - 1
    IN  [n \in 1..(Cardinality(commas) + 1) |-> SubSeq(s, comma(n - 1) + 1, comma(n) - 1)]

\* s without the spaces at its ends: the white space JSON allows around a token
Trim(s) ==
    LET inked == {i \in 1..Len(s) : s[i] # " "}
    IN  IF inked = {} THEN <<>>
        ELSE SubSeq(s, CHOOSE i \in inked : \A j \in inked : i <= j,
                       CHOOSE i \in inked : \A j \in inked : i >= j)

DoubleQuote == "\""

\* a JSON string without escapes
IsJsonString(p) ==
    /\ Len(p) >= 2 /\ p[1] = DoubleQuote /\ p[Len(p)] = DoubleQuote
    /\ \A i \in 2..(Len(p) - 1) : p[i] \notin {DoubleQuote, "\\"}

\* a JSON number without exponent: -? (0 | [1-9] digits) (. digits)?
IsJsonNumber(p) ==
    /\ p # <<>>
    /\ LET i == IF p[1] = "-" THEN 2 ELSE 1
       IN  \E m \in NumberMatches(p, i) : m[2] = Len(p) /\ (m[1] = i \/ p[i] # "0")

\* a value of a parsed array: a string, or a number kept as its text
JsonItem(p) ==
    IF p[1] = DoubleQuote THEN [t |-> "str", s |-> SubSeq(p, 2, Len(p) - 1)]
    ELSE [t |-> "num", s |-> p]

\* JSON.parse throws a SyntaxError
SyntaxError == [ok |-> FALSE, items |-> <<>>]

\* JSON.parse of a text, on the arrays of numbers and of strings without
\* commas, quotes or escapes; everything else the texts of this model hold
\* (an unclosed array, a bare word, a trailing comma) is a SyntaxError
JsonParse(s) ==
    LET t == Trim(s)
    IN  IF Len(t) < 2 \/ t[1] # "[" \/ t[Len(t)] # "]" THEN SyntaxError
        ELSE LET inner == Trim(SubSeq(t, 2, Len(t) - 1))
                 pieces == SplitComma(inner)
             IN  IF inner = <<>> THEN [ok |-> TRUE, items |-> <<>>]
                 ELSE IF \A n \in 1..Len(pieces) :
                            IsJsonString(Trim(pieces[n])) \/ IsJsonNumber(Trim(pieces[n]))
                      THEN [ok |-> TRUE,
                            items |-> [n \in 1..Len(pieces) |-> JsonItem(Trim(pieces[n]))]]
                      ELSE SyntaxError

\* str.startsWith('[') ? JSON.parse(str) : [str]
ParseOrWrap(str) ==
    IF str # <<>> /\ str[1] = "[" THEN JsonParse(str)
    ELSE [ok |-> TRUE, items |-> <<[t |-> "str", s |-> str]>>]

\* String(prices[index]): the text parseFloat reads
ItemText(items, index) == IF index + 1 <= Len(items) THEN items[index + 1].s ELSE Undefined

\* parsePolymarketOutcomes: how the call ends and the list it returns
parsePolymarketOutcomes(oStr, pStr) ==
    LET names == ParseOrWrap(oStr)
        prices == ParseOrWrap(pStr)
    IN  IF ~names.ok \/ ~prices.ok THEN [ended |-> "returned", list |-> <<>>]
        ELSE [ended |-> "returned",
              list |-> [n \in 1..Len(names.items) |->
                          [name |-> names.items[n],
                           price |-> OrZero(ParseFloat(ItemText(prices.items, n - 1)))]]]

\* parsePolymarketOutcomes not called
NotCalled == [ended |-> "no", list |-> <<>>]
ParseIdle == outcomesStr = <<>> /\ pricesStr = <<>> /\ outcomes = NotCalled

\* the URLs fetched
Urls == {"spot", "options"}
\* cache[url] of a URL never fetched
NoEntry == [timestamp |-> -1, data |-> "none"]
ApiIdle ==
    /\ now = 0 /\ calls = <<>> /\ requests = <<>>
    /\ cache = [u \in Urls |-> NoEntry]
    /\ inFlightRequests = [u \in Urls |-> 0]

SideIdle == QuoteIdle /\ ParseIdle /\ ApiIdle

----------------------------------------------------------------------------
(* Specification of extractStrikePrice over every text of the alphabet *)

Alphabet == {"$", "0", "1", ".", "k", "K", ",", "x"}

Texts == UNION {[1..n -> Alphabet] : n \in 0..MaxLen}

InitExtract ==
    /\ text \in Texts
    /\ extracted = Unset
    /\ MathIdle /\ MatchIdle /\ PanelIdle /\ SideIdle

\* one call of extractStrikePrice(text)
Extract ==
    /\ extracted = Unset
    /\ extracted' = extractStrikePrice(text)
    /\ UNCHANGED text

NextExtract ==
    Extract /\ UNCHANGED <<mathVars, matchVars, matchedOptions, panelVars, sideVars>>

SpecExtract == InitExtract /\ [][NextExtract]_vars

----------------------------------------------------------------------------
(* Specification of the two estimators *)

Spots == {90 * Scale, 100 * Scale, 110 * Scale}
Strikes == {90 * Scale, 100 * Scale, 110 * Scale}
\* years: 0, a quarter, one
BsTimes == {0, Scale \div 4, Scale}
\* years: 0 and 0.73, 1.46, 2.19 days
McTimes == {0, 2, 4, 6}
Sigmas == {-(Scale \div 2), 0, Scale \div 2}
McSigmas == {0, Scale \div 2}
VolMultipliers == {Scale, 3 * Scale}

InitMath ==
    /\ call = NoCall
    /\ mc = McIdle
    /\ ret = Unset
    /\ ExtractIdle /\ MatchIdle /\ PanelIdle /\ SideIdle

\* calculateBlackScholesProb(S, K, T, sigma)
CallBlackScholes ==
    /\ call = NoCall
    /\ \E S \in Spots, K \in Strikes, T \in BsTimes, sigma \in Sigmas :
        /\ call' = [NoCall EXCEPT !.fn = "BS", !.S = S, !.K = K, !.T = T, !.sigma = sigma]
        /\ ret' = calculateBlackScholesProb(S, K, T, sigma)
    /\ UNCHANGED mc

\* runMonteCarloSimulation(S, K, T, sigma, r, iterations, volMultiplier, isTouch)
\* up to the first iteration of the path loop
CallMonteCarlo ==
    /\ call = NoCall
    /\ \E S \in Spots, K \in Strikes, T \in McTimes, sigma \in McSigmas,
          n \in 1..MaxIterations, m \in VolMultipliers, touch \in BOOLEAN :
        /\ call' = [fn |-> "MC", S |-> S, K |-> K, T |-> T, sigma |-> sigma,
                    iterations |-> n, volMultiplier |-> m, isTouch |-> touch]
        /\ IF T <= 0
           THEN /\ ret' = Indicator(S, K)
                /\ mc' = [McIdle EXCEPT !.pc = "done"]
           ELSE /\ ret' = Unset
                /\ mc' = [McIdle EXCEPT !.pc = "path"]

\* for (let i = 0; i < iterations; i++) { let currentS = S; let hit = false;
McPath ==
    /\ mc.pc = "path"
    /\ mc' = [mc EXCEPT !.pc = "step", !.j = 0, !.currentS = call.S, !.hit = FALSE]
    /\ UNCHANGED <<call, ret>>

\* a step that does not look at the barrier
McStepNoBarrier ==
    /\ mc.pc = "step"
    /\ \E Z \in ZValues :
        mc' = [mc EXCEPT !.currentS = StepPrice(call, mc.currentS, Z), !.j = mc.j + 1,
                         !.pc = IF mc.j + 1 < Steps(call.T, call.isTouch)
                                THEN "step" ELSE "count"]
    /\ UNCHANGED <<call, ret>>

\* one iteration of for (let j = 0; j < steps; j++)
McStep ==
    /\ mc.pc = "step"
    /\ \E Z \in ZValues :
        LET newS == StepPrice(call, mc.currentS, Z)
        IN  IF call.isTouch /\ newS >= call.K
            THEN mc' = [mc EXCEPT !.currentS = newS, !.hit = TRUE, !.pc = "count"]
            ELSE mc' = [mc EXCEPT !.currentS = newS, !.j = mc.j + 1,
                                  !.pc = IF mc.j + 1 < Steps(call.T, call.isTouch)
                                         THEN "step" ELSE "count"]
    /\ UNCHANGED <<call, ret>>

\* the count after the step loop, and i++
McCount ==
    /\ mc.pc = "count"
    /\ LET success == IF call.isTouch THEN mc.hit ELSE mc.currentS > call.K
       IN  mc' = [mc EXCEPT !.successCount = IF success THEN mc.successCount + 1
                                             ELSE mc.successCount,
                            !.i = mc.i + 1,
                            !.pc = IF mc.i + 1 < call.iterations THEN "path" ELSE "return"]
    /\ UNCHANGED <<call, ret>>

\* a return of the count itself
McReturnCount ==
    /\ mc.pc = "return"
    /\ ret' = Num(mc.successCount * Scale)
    /\ mc' = [mc EXCEPT !.pc = "done"]
    /\ UNCHANGED call

\* return successCount / iterations
McReturn ==
    /\ mc.pc = "return"
    /\ ret' = FDiv(mc.successCount, call.iterations)
    /\ mc' = [mc EXCEPT !.pc = "done"]
    /\ UNCHANGED call

OutsideMath == <<extractVars, matchVars, matchedOptions, panelVars, sideVars>>

NextMath ==
    \/ (CallBlackScholes /\ UNCHANGED OutsideMath)
    \/ (CallMonteCarlo /\ UNCHANGED OutsideMath)
    \/ (McPath /\ UNCHANGED OutsideMath)
    \/ (McStep /\ UNCHANGED OutsideMath)
    \/ (McCount /\ UNCHANGED OutsideMath)
    \/ (McReturn /\ UNCHANGED OutsideMath)

SpecMath == InitMath /\ [][NextMath]_vars

----------------------------------------------------------------------------
(* Specification of the match logic of App.fetchData *)

DeribitUniverse == {O90, O100, O110, O100Later, OShort}

\* the chains of distinct quotes
DeribitResponses ==
    {r \in UNION {[1..n -> DeribitUniverse] : n \in 0..MaxChain} :
        \A a, b \in 1..Len(r) : a # b => r[a] # r[b]}

EndDates ==
    {NoDate, [y |-> 2024, m |-> 5, d |-> 5], [y |-> 2024, m |-> 5, d |-> 15],
     [y |-> 2024, m |-> 12, d |-> 16]}

InitMatch ==
    /\ MatchIdle
    /\ ExtractIdle /\ MathIdle /\ PanelIdle /\ SideIdle

\* fetchData, for one event: the fetch and the match logic
FetchData ==
    /\ \E date \in EndDates, options \in DeribitResponses :
        /\ endDate' = date
        /\ deribitOptions' = options
        /\ matchedOptions' = MatchOptions(date, options)
    /\ loaded' = TRUE
    /\ UNCHANGED <<extractVars, mathVars, panelVars, sideVars>>

NextMatch == FetchData

SpecMatch == InitMatch /\ [][NextMatch]_vars

----------------------------------------------------------------------------
(* Specification of AnalysisPanel *)

\* the effect run: the cleanup of the last run, then the body
EffectRun(d, q) ==
    /\ superseded' = (superseded \/ (effectTimer \cap timers # {}))
    /\ resultCurrent' = FALSE
    /\ IF EffectGuard(d)
       THEN /\ resultProb' = Null
            /\ timers' = ClearTimeout(timers, effectTimer)
            /\ effectTimer' = {}
            /\ UNCHANGED calculating
       ELSE /\ calculating' = TRUE
            /\ timers' = ClearTimeout(timers, effectTimer) \cup {Closure(d, q)}
            /\ effectTimer' = {Closure(d, q)}
            /\ UNCHANGED resultProb

\* the end of a render with the memos K and opt: the props and state of the
\* render, and the effect when a dependency changed; fresh says that the quotes
\* of the chain are new objects, so that a selected quote differs from the last
\* one even when its fields are the same
Commit(sp, q, title, chain, T, mt, vm, ms, fresh, K, opt) ==
    /\ spotPrice' = sp /\ question' = q /\ polyEventTitle' = title
    /\ matchedOptions' = chain /\ timeToExpiry' = T
    /\ modelType' = mt /\ volMultiplier' = vm /\ manualStrike' = ms
    /\ strikePriceMemo' = K /\ relevantOptionMemo' = opt
    /\ LET d == Deps(sp, K, T, opt, mt, vm)
       IN  IF d = CurrentDeps /\ ~(fresh /\ opt # NoOption)
           THEN UNCHANGED <<calculating, resultProb, timers, effectTimer, resultCurrent,
                            superseded>>
           ELSE EffectRun(d, q)

\* a render, from the relevantOption memo on, with the strikePrice memo K
SelectOption(sp, q, title, chain, T, mt, vm, ms, fresh, K) ==
    Commit(sp, q, title, chain, T, mt, vm, ms, fresh, K, Lookup(OptionTable, <<chain, K>>))

\* a render with the given props and state
Rerender(sp, q, title, chain, T, mt, vm, ms, fresh) ==
    SelectOption(sp, q, title, chain, T, mt, vm, ms, fresh,
                 Lookup(StrikeTable, <<q, title, ms>>))

\* the mount: useState initial values, then the first effect run
InitPanel ==
    /\ spotPrice \in PanelSpots /\ question \in Questions /\ polyEventTitle \in Titles
    /\ matchedOptions \in PanelChains /\ timeToExpiry \in PanelTimes
    /\ modelType = "BS" /\ volMultiplier = Scale /\ manualStrike = <<>>
    /\ strikePriceMemo = Lookup(StrikeTable, <<question, polyEventTitle, manualStrike>>)
    /\ relevantOptionMemo = Lookup(OptionTable, <<matchedOptions, strikePriceMemo>>)
    /\ resultProb = Null
    /\ resultCurrent = FALSE /\ superseded = FALSE
    /\ IF EffectGuard(CurrentDeps)
       THEN calculating = FALSE /\ timers = {} /\ effectTimer = {}
       ELSE /\ calculating = TRUE
            /\ timers = {Closure(CurrentDeps, question)}
            /\ effectTimer = timers
    /\ ExtractIdle /\ MathIdle /\ MatchIdle /\ SideIdle

\* the parent renders the panel after a refresh with a new spot and chain; the
\* quotes are those of a new response or those of the cached one
PropsChange ==
    \E sp \in PanelSpots, chain \in PanelChains, fresh \in BOOLEAN :
        Rerender(sp, question, polyEventTitle, chain, timeToExpiry, modelType,
                 volMultiplier, manualStrike, fresh)

\* the parent renders the panel with another first market of the event: the
\* question, the title and, by the memo on market.endDate, the time to expiry
MarketChange ==
    \E q \in Questions, title \in Titles, T \in PanelTimes :
        Rerender(spotPrice, q, title, matchedOptions, T, modelType, volMultiplier,
                 manualStrike, FALSE)

\* the manual override is rendered while nothing is selected and nothing typed
ShowsManualInput == relevantOptionMemo = NoOption /\ manualStrike = <<>>

\* onChange of the manual strike input
SetManualStrike ==
    /\ ShowsManualInput
    /\ \E ms \in ManualInputs :
        Rerender(spotPrice, question, polyEventTitle, matchedOptions, timeToExpiry,
                 modelType, volMultiplier, ms, FALSE)

\* onClick of a model button
SetModelType ==
    /\ ~ShowsManualInput
    /\ \E mt \in {"BS", "MC"} :
        Rerender(spotPrice, question, polyEventTitle, matchedOptions, timeToExpiry,
                 mt, volMultiplier, manualStrike, FALSE)

\* onChange of the multiplier slider, rendered for the Monte Carlo model
SetVolMultiplier ==
    /\ ~ShowsManualInput
    /\ modelType = "MC"
    /\ \E vm \in PanelMultipliers :
        Rerender(spotPrice, question, polyEventTitle, matchedOptions, timeToExpiry,
                 modelType, vm, manualStrike, FALSE)

\* the setTimeout callback
TimerFire ==
    /\ \E t \in timers :
        /\ \E prob \in Lookup(EstimateTable, t) : resultProb' = prob
        /\ calculating' = FALSE
        /\ timers' = timers \ {t}
        /\ resultCurrent' = (DepsOf(t) = CurrentDeps)
    /\ UNCHANGED <<spotPrice, question, polyEventTitle, matchedOptions, timeToExpiry,
                   modelType, volMultiplier, manualStrike, strikePriceMemo,
                   relevantOptionMemo, effectTimer, superseded>>

OutsidePanel == <<extractVars, mathVars, matchVars, sideVars>>

NextPanel ==
    \/ (PropsChange /\ UNCHANGED OutsidePanel)
    \/ (MarketChange /\ UNCHANGED OutsidePanel)
    \/ (SetManualStrike /\ UNCHANGED OutsidePanel)
    \/ (SetModelType /\ UNCHANGED OutsidePanel)
    \/ (SetVolMultiplier /\ UNCHANGED OutsidePanel)
    \/ (TimerFire /\ UNCHANGED OutsidePanel)

SpecPanel == InitPanel /\ [][NextPanel]_vars

\* the panel with its timers running: a pending setTimeout callback is
\* called once its delay has passed
SpecPanelLive == SpecPanel /\ WF_vars(TimerFire /\ UNCHANGED OutsidePanel)

----------------------------------------------------------------------------
(* Specification of the spread and the edge of a render *)

\* prices of a market: none, 0, and prices from 0.38 to 0.50
Prices ==
    {Absent, Num(0), Num(380), Num(400), Num(427), Num(428), Num(450), Num(500)}

\* the results on display
Probs == {Null, NaN, Num(0), Num(450), Num(478), Num(500), Num(Scale)}

InitQuote ==
    /\ quote \in [bestBid : Prices, bestAsk : Prices, resultProb : Probs]
    /\ badges = Unset
    /\ ExtractIdle /\ MathIdle /\ MatchIdle /\ PanelIdle /\ ParseIdle /\ ApiIdle

\* the render of the market data and the edge
RenderBadges ==
    /\ badges = Unset
    /\ LET spread == calculateSpread(quote.bestBid, quote.bestAsk)
           e == edge(quote.resultProb, quote.bestBid, quote.bestAsk)
       IN  badges' = [spread |-> spread, isLiquidityLow |-> isLiquidityLow(spread),
                      edge |-> e, isGoodOpp |-> isGoodOpp(e)]
    /\ UNCHANGED quote

NextQuote ==
    RenderBadges /\ UNCHANGED <<extractVars, mathVars, matchVars, matchedOptions, panelVars,
                                parseVars, apiVars>>

SpecQuote == InitQuote /\ [][NextQuote]_vars

----------------------------------------------------------------------------
(* Specification of parsePolymarketOutcomes *)

\* outcome texts: lists as Polymarket sends them, plain names, the empty
\* text, and texts that open a list and are no JSON
OutcomeTexts ==
    { <<"[", "\"", "Y", "\"", ",", " ", "\"", "N", "\"", "]">>,
      <<"[", "\"", "Y", "\"", "]">>,
      <<"[", "]">>,
      <<"[", "1", ",", "2", "]">>,
      <<"Y", "e", "s">>,
      <<>>,
      <<"[", "Y", "e", "s">>,
      <<"[", "\"", "Y", "\"">>,
      <<"[", "Y", "]">>,
      <<"[", "\"", "Y", "\"", ",", "]">> }

PriceTexts ==
    { <<"[", "\"", "0", ".", "4", "\"", ",", " ", "\"", "0", ".", "6", "\"", "]">>,
      <<"[", "0", ".", "4", "]">>,
      <<"[", "]">>,
      <<"0", ".", "4">>,
      <<"[", "0", ".", "4">>,
      <<"[", "\"", "x", "\"", "]">> }

InitParse ==
    /\ outcomesStr \in OutcomeTexts
    /\ pricesStr \in PriceTexts
    /\ outcomes = NotCalled
    /\ ExtractIdle /\ MathIdle /\ MatchIdle /\ PanelIdle /\ QuoteIdle /\ ApiIdle

ParseOutcomes ==
    /\ outcomes = NotCalled
    /\ outcomes' = parsePolymarketOutcomes(outcomesStr, pricesStr)
    /\ UNCHANGED <<outcomesStr, pricesStr>>

NextParse ==
    ParseOutcomes /\ UNCHANGED <<extractVars, mathVars, matchVars, matchedOptions, panelVars,
                                 quoteVars, apiVars>>

SpecParse == InitParse /\ [][NextParse]_vars

----------------------------------------------------------------------------
(* Specification of fetchWithCache and fetchWithFailover *)

\* PROXIES.length
ProxyCount == 3

\* the duration fetchDeribitSpot (30 s) and fetchDeribitOptions (60 s) pass,
\* in units of 30 s
Duration(url) == IF url = "spot" THEN 1 ELSE 2

\* the bodies a server answers with
Bodies == {"a", "b"}

\* what a fetch through a proxy comes to: an OK response with a JSON body, an
\* OK response whose body is no JSON, a 429, a 403, another status that is
\* not OK, or a rejected fetch
Responses ==
    {[kind |-> "ok", data |-> d] : d \in Bodies}
      \cup {[kind |-> k, data |-> "none"] : k \in {"badjson", "429", "403", "500", "neterr"}}

\* no response yet
NoAnswer == [kind |-> "none", data |-> "none"]

\* a call that started no request; contacted and answer are history: the
\* proxies fetched through so far and what the last fetch came to
NoRequest ==
    [url |-> "none", pc |-> "none", i |-> 0, contacted |-> <<>>, answer |-> NoAnswer,
     lastError |-> "none", data |-> "none", error |-> "none"]

\* an entry as old as the duration counted as fresh
FreshAtDuration(url, duration) == cache[url] # NoEntry /\ now - cache[url].timestamp <= duration

\* cache[url] && now - cache[url].timestamp < duration
Fresh(url, duration) == cache[url] # NoEntry /\ now - cache[url].timestamp < duration

\* fetchWithCache(url, duration): the cached data, the promise in flight, or
\* a new request, whose promise is stored before anything can settle it
fetchWithCache(url, duration) ==
    /\ Len(calls) < MaxCalls
    /\ LET c == Len(calls) + 1
       IN  IF Fresh(url, duration)
           THEN /\ calls' = Append(calls, [url |-> url, duration |-> duration, from |-> "cache",
                                           request |-> 0, data |-> cache[url].data])
                /\ requests' = Append(requests, NoRequest)
                /\ UNCHANGED inFlightRequests
           ELSE IF inFlightRequests[url] # 0
           THEN /\ calls' = Append(calls, [url |-> url, duration |-> duration, from |-> "inFlight",
                                           request |-> inFlightRequests[url], data |-> "none"])
                /\ requests' = Append(requests, NoRequest)
                /\ UNCHANGED inFlightRequests
           ELSE /\ calls' = Append(calls, [url |-> url, duration |-> duration, from |-> "request",
                                           request |-> c, data |-> "none"])
                /\ requests' = Append(requests, [NoRequest EXCEPT !.url = url, !.pc = "fetch"])
                /\ inFlightRequests' = [inFlightRequests EXCEPT ![url] = c]
    /\ UNCHANGED <<now, cache>>

\* the generic error, whatever was recorded
ThrownGeneric(lastError) == "All proxies failed"

\* the error fetchWithFailover throws after the loop
Thrown(lastError) == IF lastError = "none" THEN "All proxies failed" ELSE lastError

\* one iteration of the loop of fetchWithFailover: the fetch through proxy i
\* and what follows from its response
Attempt(r, resp) ==
    /\ requests[r].pc = "fetch"
    /\ LET q == requests[r]
           failed == resp.kind \in {"badjson", "500", "neterr"}
           lastError == IF failed THEN resp.kind ELSE q.lastError
           last == q.i + 1 = ProxyCount
       IN  requests' = [requests EXCEPT ![r] =
               IF resp.kind = "ok"
               THEN [q EXCEPT !.contacted = Append(q.contacted, q.i), !.answer = resp,
                              !.pc = "returned", !.data = resp.data]
               ELSE [q EXCEPT !.contacted = Append(q.contacted, q.i), !.answer = resp,
                              !.i = q.i + 1, !.lastError = lastError,
                              !.pc = IF last THEN "threw" ELSE "fetch",
                              !.error = IF last THEN Thrown(lastError) ELSE "none"]]
    /\ UNCHANGED <<now, cache, inFlightRequests, calls>>

\* a request that has settled: its outcome, without the locals of fetchWithFailover
Settled(q) == [NoRequest EXCEPT !.url = q.url, !.pc = "settled", !.data = q.data, !.error = q.error]

\* a request whose in-flight entry stays when fetchWithFailover throws
SettleKeepingFailed(r) ==
    /\ requests[r].pc \in {"returned", "threw"}
    /\ LET q == requests[r]
       IN  /\ cache' = IF q.pc = "returned"
                       THEN [cache EXCEPT ![q.url] = [timestamp |-> now, data |-> q.data]]
                       ELSE cache
           /\ inFlightRequests' = IF q.pc = "returned"
                                  THEN [inFlightRequests EXCEPT ![q.url] = 0]
                                  ELSE inFlightRequests
           /\ requests' = [requests EXCEPT ![r] = Settled(q)]
    /\ UNCHANGED <<now, calls>>

\* the rest of the request of step 3 once fetchWithFailover has returned or
\* thrown: the cache entry (when it returned), then the finally
Settle(r) ==
    /\ requests[r].pc \in {"returned", "threw"}
    /\ LET q == requests[r]
       IN  /\ cache' = IF q.pc = "returned"
                       THEN [cache EXCEPT ![q.url] = [timestamp |-> now, data |-> q.data]]
                       ELSE cache
           /\ inFlightRequests' = [inFlightRequests EXCEPT ![q.url] = 0]
           /\ requests' = [requests EXCEPT ![r] = Settled(q)]
    /\ UNCHANGED <<now, calls>>

\* time passes
Tick ==
    /\ now < MaxClock
    /\ now' = now + 1
    /\ UNCHANGED <<cache, inFlightRequests, calls, requests>>

\* the state of the promise a call returned
Outcome(c) ==
    IF calls[c].from = "cache" THEN [state |-> "fulfilled", value |-> calls[c].data]
    ELSE LET q == requests[calls[c].request]
         IN  IF q.pc # "settled" THEN [state |-> "pending", value |-> "none"]
             ELSE IF q.error = "none" THEN [state |-> "fulfilled", value |-> q.data]
             ELSE [state |-> "rejected", value |-> q.error]

InitApi ==
    /\ ApiIdle
    /\ ExtractIdle /\ MathIdle /\ MatchIdle /\ PanelIdle /\ QuoteIdle /\ ParseIdle

OutsideApi ==
    <<extractVars, mathVars, matchVars, matchedOptions, panelVars, quoteVars, parseVars>>

NextApi ==
    \/ \E url \in Urls : fetchWithCache(url, Duration(url)) /\ UNCHANGED OutsideApi
    \/ \E r \in 1..Len(requests), resp \in Responses :
            Attempt(r, resp) /\ UNCHANGED OutsideApi
    \/ \E r \in 1..Len(requests) : Settle(r) /\ UNCHANGED OutsideApi
    \/ Tick /\ UNCHANGED OutsideApi

SpecApi == InitApi /\ [][NextApi]_vars

----------------------------------------------------------------------------
(* Claims about extractStrikePrice *)

\* C8: extractStrikePrice returns none (null) or a strictly positive number,
\* never 0 or a non-positive value.
C8_PositiveOrNone ==
    extracted # Unset => (extracted = Null \/ (IsNum(extracted) /\ extracted.v > 0))

\* the last position of the digit run that starts at i (i - 1 when s[i] is no digit)
DigitRunEnd(s, i) ==
    CHOOSE j \in (i - 1)..Len(s) :
        AllDigits(s, i, j) /\ (j = Len(s) \/ ~IsDigit(s[j + 1]))

\* the number written at position i, read left to right: its digits and, when
\* a "." and a digit follow them, the fraction; <<a, e>> as in NumberMatches
NumberAt(s, i) ==
    LET a == DigitRunEnd(s, i)
    IN  IF a + 2 <= Len(s) /\ s[a + 1] = "." /\ IsDigit(s[a + 2])
        THEN <<a, DigitRunEnd(s, a + 2)>>
        ELSE <<a, a>>

NumberAtValue(s, i) == DecimalValue(s, i, NumberAt(s, i)[1], NumberAt(s, i)[2])

\* positions of a "$" directly followed by a digit
DollarNumbers(s) == {i \in 1..Len(s) : s[i] = "$" /\ i < Len(s) /\ IsDigit(s[i + 1])}

\* positions where a number starts that is directly followed by a "k" ending a word
KNumbers(s) ==
    {i \in 1..Len(s) :
        /\ IsDigit(s[i])
        /\ LET e == NumberAt(s, i)[2]
           IN  e < Len(s) /\ s[e + 1] = "k"
                 /\ (e + 1 = Len(s) \/ ~IsWordChar(s[e + 2]))}

Leftmost(S) == CHOOSE i \in S : \A j \in S : i <= j

----------------------------------------------------------------------------
(* Claims about the estimators *)

\* C2: when time-to-expiry T is 0, calculateBlackScholesProb and
\* runMonteCarloSimulation both return exactly 1.0 if S > K and exactly 0.0
\* otherwise, whatever the volatility, multiplier, iteration count and
\* barrier mode.
C2_ExpiredIsIndicator ==
    (ret # Unset /\ call.T = 0) =>
        ret = (IF call.S > call.K THEN Num(Scale) ELSE Num(0))

\* a simulation call at T = 0 with S > K, a multiplier other than 1 and the
\* barrier mode on has returned 1.0
C2_Witness ==
    /\ call.fn = "MC" /\ call.T = 0 /\ call.S > call.K
    /\ call.isTouch /\ call.volMultiplier # Scale /\ call.iterations > 1
    /\ ret = Num(Scale)

\* C3: when sigma <= 0 and T > 0 the closed-form estimator returns the boundary
\* indicator (1.0 if S > K, else 0.0), so never a non-finite value.
C3_ZeroVolIsIndicator ==
    (ret # Unset /\ call.fn = "BS" /\ call.sigma <= 0 /\ call.T > 0) =>
        ret = (IF call.S > call.K THEN Num(Scale) ELSE Num(0))

----------------------------------------------------------------------------
(* Claims about the match logic *)

\* the expiry field of an instrument identifier
ExpiryField(opt) == At(SplitDash(opt.instrument_name), 1)

\* C7: matchedOptions holds quotes of a single expiry only: the expiry field of
\* every quote equals the code derived from the event's end date, and a
\* missing end date admits no quote.
C7_SingleExpiry ==
    loaded =>
        \A n \in 1..Len(matchedOptions) :
            /\ endDate # NoDate
            /\ ExpiryField(matchedOptions[n]) = convertIsoToDeribitDate(endDate)

----------------------------------------------------------------------------
(* Claims about AnalysisPanel *)

Threshold == strikePriceMemo
Selected == relevantOptionMemo

\* |strike - threshold| of the n-th quote of the chain
Distance(n) == FAbs(FSub(StrikeOf(matchedOptions[n]), Threshold))

\* C4: given a positive threshold and a non-empty chain, the selector returns
\* the quote whose strike is at minimum absolute distance to the threshold,
\* and of several such quotes the first in chain order.
C4_NearestQuote ==
    (IsNum(Threshold) /\ Threshold.v > 0 /\ matchedOptions # <<>>) =>
        \E n \in 1..Len(matchedOptions) :
            /\ Selected = matchedOptions[n]
            /\ IsNum(Distance(n))
            /\ \A m \in 1..Len(matchedOptions) :
                IsNum(Distance(m)) =>
                    \/ Distance(n).v < Distance(m).v
                    \/ Distance(n).v = Distance(m).v /\ n <= m

\* C5: nothing is selected when the chain is empty or the threshold is not
\* positive, a negative manual override included, and so no estimator is run
\* with a threshold <= 0.
C5_NoSelectionNoRun ==
    /\ (matchedOptions = <<>> \/ ~(IsNum(Threshold) /\ Threshold.v > 0)) =>
            Selected = NoOption
    /\ \A t \in timers : IsNum(t.strike) /\ t.strike.v > 0

\* an identifier of the four parts underlying-expiry-strike-kind
WellFormed(opt) == Len(SplitDash(opt.instrument_name)) = 4

\* C6: a quote whose identifier does not parse into four parts is skipped by
\* the selector: it is never the selected quote, and it does not keep a
\* well-formed quote of the same chain from being selected.
C6_MalformedSkipped ==
    /\ Selected # NoOption => WellFormed(Selected)
    /\ (/\ IsNum(Threshold) /\ Threshold.v > 0
        /\ \E n \in 1..Len(matchedOptions) : WellFormed(matchedOptions[n]))
            => Selected # NoOption

\* C10: the threshold is the value extracted from the question if one is
\* found, else the value extracted from the title, else the manual override;
\* the override never changes the threshold while a text yields a value.
C10_Precedence ==
    Threshold =
        (IF extractStrikePrice(question) # Null THEN extractStrikePrice(question)
         ELSE IF extractStrikePrice(polyEventTitle) # Null
         THEN extractStrikePrice(polyEventTitle)
         ELSE OrZero(ParseFloat(manualStrike)))

\* C11: whenever there is no valid threshold or no selected quote, the
\* published result is null and the edge is undefined: no probability left
\* over from earlier inputs, or computed for an invalid threshold, is shown.
C11_IdleShowsNull ==
    (~(IsNum(Threshold) /\ Threshold.v > 0) \/ Selected = NoOption) =>
        /\ resultProb = Null
        /\ \A ask \in Prices : edge(resultProb, ask, ask) = Null

\* a valid threshold and a selected quote
Valid == IsNum(Threshold) /\ Threshold.v > 0 /\ Selected # NoOption

\* the six inputs of a computation
Inputs ==
    <<spotPrice, strikePriceMemo, timeToExpiry, relevantOptionMemo, modelType,
      volMultiplier>>

\* the inputs a pending computation t will use are those of the render
UsesInputs(t) ==
    /\ t.spot = spotPrice /\ t.strike = strikePriceMemo /\ t.T = timeToExpiry
    /\ t.option = relevantOptionMemo /\ t.modelType = modelType
    /\ t.volMultiplier = volMultiplier

\* a step that changes no prop and no state of the panel and starts no computation
Quiet ==
    /\ UNCHANGED <<spotPrice, question, polyEventTitle, matchedOptions, timeToExpiry,
                   modelType, volMultiplier, manualStrike>>
    /\ timers' \subseteq timers

\* C12: while a valid threshold and a selected quote exist, every change of
\* spot, threshold, time to expiry, selected quote, model or multiplier starts
\* a new computation of the new values, and once no further change follows a
\* result computed from the current values is eventually published.
C12_Recomputes ==
    /\ [][(Valid' /\ Inputs' # Inputs) =>
            (calculating' /\ timers' # {} /\ \A t \in timers' : UsesInputs(t)')]_vars
    /\ (<>[][Quiet]_vars) => <>[](Valid => (timers = {} /\ resultProb # Null /\ resultCurrent))

\* the result of a simulation with a changed multiplier is on display, computed
\* from the current inputs
C12_Witness ==
    /\ Valid
    /\ modelType = "MC" /\ volMultiplier # Scale
    /\ timers = {} /\ ~calculating
    /\ resultProb # Null /\ resultCurrent

----------------------------------------------------------------------------
(* Claims about the spread and the edge *)

\* C13: whenever a result is available, edge = probability x 100 - best ask
\* x 100, the ask counting as 0 when absent, and the good-opportunity flag is
\* true exactly when the edge is strictly greater than 5.0.
C13_Edge ==
    (badges # Unset /\ IsNum(quote.resultProb)) =>
        LET yes == IF IsNum(quote.bestAsk) THEN quote.bestAsk.v ELSE 0
            e   == quote.resultProb.v * 100 - yes * 100
        IN  /\ badges.edge = Num(e)
            /\ badges.isGoodOpp = (e > 5 * Scale)

\* ask 0.40 and probability 0.50 rendered: edge 10.0, flagged
C13_Witness ==
    /\ badges # Unset
    /\ quote.bestAsk = Num(400) /\ quote.resultProb = Num(500)
    /\ badges.edge = Num(10 * Scale)
    /\ badges.isGoodOpp

\* C14: calculateSpread(bid, ask) is (ask - bid) / ask x 100 when the ask is
\* present and not 0, and 0 when the ask is 0 or absent; the low-liquidity
\* flag is true exactly when the spread is strictly greater than 5.0.
C14_Spread ==
    badges # Unset =>
        LET bid == quote.bestBid
            ask == quote.bestAsk
        IN  /\ IF IsNum(ask) /\ ask.v # 0
               THEN badges.spread =
                        (IF IsNum(bid)
                         THEN Num(Quot((ask.v - bid.v) * Scale, ask.v) * 100)
                         ELSE NaN)
               ELSE badges.spread = Num(0)
            /\ badges.isLiquidityLow =
                   (IsNum(badges.spread) /\ badges.spread.v > 5 * Scale)

\* bid 0.40 and ask 0.45 rendered: a spread of 11.1 percent, flagged
C14_Witness ==
    /\ badges # Unset
    /\ quote.bestBid = Num(400) /\ quote.bestAsk = Num(450)
    /\ IsNum(badges.spread) /\ badges.spread.v > 11 * Scale /\ badges.spread.v < 12 * Scale
    /\ badges.isLiquidityLow

----------------------------------------------------------------------------
(* Claims about the simulation *)

\* max(1, ceil(T x 365)) for T in thousandths of a year
DailySteps(T) ==
    CHOOSE n \in 1..(T * 365 + 1) :
        /\ n * Scale >= T * 365
        /\ n = 1 \/ (n - 1) * Scale < T * 365

Criterion == IF call.isTouch THEN mc.currentS >= call.K ELSE mc.currentS > call.K

\* C16: a path is a success in TerminalOnly mode iff its final price is > K,
\* in EverTouched mode iff the price after some step is >= K; stepping stops
\* at the first step that touches the barrier; each path is counted at most
\* once; the estimate is successCount / N with 0 <= successCount <= N.
C16_SuccessCount ==
    /\ [](call.fn = "MC" =>
            /\ 0 <= mc.successCount /\ mc.successCount <= mc.i /\ mc.i <= call.iterations
            /\ (call.isTouch /\ mc.pc = "step" /\ mc.j > 0) => mc.currentS < call.K
            /\ (call.isTouch /\ mc.pc = "count") => (mc.hit <=> mc.currentS >= call.K)
            /\ (call.T > 0 /\ mc.pc = "done") =>
                   /\ IsNum(ret) /\ mc.i = call.iterations
                   /\ ret.v * call.iterations <= mc.successCount * Scale
                   /\ mc.successCount * Scale < (ret.v + 1) * call.iterations)
    /\ [][(mc.pc = "count") =>
            /\ mc'.i = mc.i + 1
            /\ mc'.successCount = mc.successCount + (IF Criterion THEN 1 ELSE 0)]_vars

\* of two paths the first touched the barrier and the second did not, and the
\* estimate returned is 1/2
C16_Witness ==
    /\ call.fn = "MC" /\ call.isTouch /\ call.iterations = 2
    /\ mc.pc = "done" /\ mc.successCount = 1 /\ ~mc.hit
    /\ ret = Num(Scale \div 2)

----------------------------------------------------------------------------
(* Claims about parsePolymarketOutcomes *)

\* C18: when the outcome-list text cannot be parsed (it starts with "[" and is
\* no JSON), parsePolymarketOutcomes does not throw and returns a one-element
\* list whose name is the input text.
C18_FallsBackToText ==
    (/\ outcomes # NotCalled
     /\ outcomesStr # <<>> /\ outcomesStr[1] = "[" /\ ~JsonParse(outcomesStr).ok) =>
        /\ outcomes.ended = "returned"
        /\ Len(outcomes.list) = 1
        /\ outcomes.list[1].name = [t |-> "str", s |-> outcomesStr]

----------------------------------------------------------------------------
(* Claims about the calculating indicator *)

\* C19: the calculating indicator is true only while a computation is
\* pending: once no computation is pending, whatever the input changes were
\* (inputs that became invalid while a computation was scheduled included),
\* the indicator is false.
C19_CalculatingOnlyWhilePending == calculating => timers # {}

----------------------------------------------------------------------------
(* Claims about fetchWithCache *)

\* the requests for a URL that have not settled
Unsettled(url) ==
    {r \in 1..Len(requests) : requests[r].url = url /\ requests[r].pc \in {"fetch", "returned", "threw"}}

\* C20: fetchWithCache deduplicates requests: at most one request per URL is
\* in flight at a time; a call for a URL with a request in flight and no fresh
\* cache entry starts no request and returns the promise of that request, so
\* that it receives its outcome; and the in-flight entry of the URL is there
\* exactly while the request has not settled, whether it succeeds or fails.
C20_Deduplicates ==
    /\ [](\A url \in Urls :
            /\ Cardinality(Unsettled(url)) <= 1
            /\ inFlightRequests[url] = 0 <=> Unsettled(url) = {}
            /\ inFlightRequests[url] # 0 => Unsettled(url) = {inFlightRequests[url]})
    /\ [](\A c \in 1..Len(calls) :
            /\ calls[c].from # "cache" =>
                   /\ requests[calls[c].request].url = calls[c].url
                   /\ calls[c].request <= c
                   /\ \A r \in (calls[c].request + 1)..c : requests[r].url # calls[c].url
            /\ \A d \in 1..Len(calls) :
                   (calls[c].from # "cache" /\ calls[d].from # "cache"
                      /\ calls[c].request = calls[d].request) => Outcome(c) = Outcome(d))
    /\ [][\A url \in Urls :
            (/\ Len(calls') = Len(calls) + 1 /\ calls'[Len(calls')].url = url
             /\ Unsettled(url) # {}
             /\ ~Fresh(url, Duration(url)))
                => /\ Unsettled(url)' = Unsettled(url)
                   /\ calls'[Len(calls')].request \in Unsettled(url)]_vars

\* two calls shared a request that failed, and a later call for the same URL
\* started a new request
C20_Witness ==
    /\ Len(calls) = 3
    /\ calls[1].from = "request" /\ calls[2].from = "inFlight" /\ calls[2].request = 1
    /\ Outcome(1).state = "rejected" /\ Outcome(2) = Outcome(1)
    /\ calls[3].url = calls[1].url /\ calls[3].from = "request"
    /\ inFlightRequests[calls[3].url] = 3

----------------------------------------------------------------------------
(* Claims about fetchWithFailover *)

\* the requests fetchWithFailover is running for, or has just ended for
Running == {r \in 1..Len(requests) : requests[r].pc \in {"fetch", "returned", "threw"}}

\* the responses the catch records as lastError
Caught == {"badjson", "500", "neterr"}

----------------------------------------------------------------------------
(* Claims about the cache *)

\* the call a step makes
NewCall == calls'[Len(calls')]

\* C22: the cache is written only by a successful request, with the data it
\* returned; a failed request leaves the cache unchanged; a call that finds an
\* entry younger than its duration returns the cached data, starts no request
\* and changes neither the cache nor the in-flight map; and an entry whose age
\* is >= the duration is never returned.
C22_CacheWrites ==
    [][/\ cache' # cache =>
            \E r \in 1..Len(requests) :
                /\ requests[r].pc = "returned" /\ requests'[r].pc = "settled"
                /\ requests[r].error = "none"
                /\ cache' = [cache EXCEPT ![requests[r].url] =
                                [timestamp |-> now, data |-> requests[r].data]]
       /\ \A r \in 1..Len(requests) :
            (requests[r].pc = "threw" /\ requests'[r].pc = "settled") => cache' = cache
       /\ Len(calls') = Len(calls) + 1 =>
            LET entry == cache[NewCall.url]
                young == entry # NoEntry /\ now - entry.timestamp < NewCall.duration
            IN  /\ young =>
                       /\ NewCall.from = "cache" /\ NewCall.data = entry.data
                       /\ Outcome(Len(calls))' = [state |-> "fulfilled", value |-> entry.data]
                       /\ requests' = Append(requests, NoRequest)
                       /\ cache' = cache /\ inFlightRequests' = inFlightRequests
                /\ ~young => NewCall.from # "cache"]_vars

\* a request filled the cache, a second call was served from it, and a third
\* call found the entry too old and started a request
C22_Witness ==
    /\ Len(calls) = 3
    /\ calls[1].from = "request" /\ calls[2].from = "cache" /\ calls[3].from = "request"
    /\ calls[2].url = calls[1].url /\ calls[3].url = calls[1].url
    /\ cache[calls[1].url] # NoEntry
    /\ now - cache[calls[1].url].timestamp >= calls[3].duration

============================================================================
